---------------------------- MODULE Spec2Model ----------------------------
(***************************************************************************)
(* Model of src/main.py: the SRT -> ASS subtitle converter                 *)
(* (srt_time_to_ass, convert_srt_to_ass, update_ass_styles) and the        *)
(* Telegram handler handle_document that calls them.                       *)
(*                                                                         *)
(* Text is a sequence of atoms.  An atom is one character ("0", ":", " ",  *)
(* "\n", "[", ...) or a fixed run of characters that the code only ever    *)
(* handles as a whole ("V4+ Styles", "Hello", "Dialogue: 0,").  The text   *)
(* an atom sequence stands for is the concatenation of its atoms.  The     *)
(* run atoms of the inputs of convert_srt_to_ass hold no white space and   *)
(* no part of a timecode or of " --> "; the run atoms of the inputs of     *)
(* update_ass_styles hold no "[", no "]" and no line break.                *)
(***************************************************************************)
EXTENDS Integers, Sequences, FiniteSets, TLC

VARIABLES
    time_str, time_ret, time_pc,                 \* srt_time_to_ass: argument, result
    srt_doc, srt_text, srt_ret, srt_pc,          \* convert_srt_to_ass
    ass_doc, ass_text, new_text, new_text2, ass_pc,   \* update_ass_styles
    document, pc, file_text, processed_text, replies, logged, exc  \* handle_document

vars == <<time_str, time_ret, time_pc, srt_doc, srt_text, srt_ret, srt_pc,
          ass_doc, ass_text, new_text, new_text2, ass_pc,
          document, pc, file_text, processed_text, replies, logged, exc>>

timeVars == <<time_str, time_ret, time_pc>>
srtVars == <<srt_doc, srt_text, srt_ret, srt_pc>>
assVars == <<ass_doc, ass_text, new_text, new_text2, ass_pc>>
handlerVars == <<document, pc, file_text, processed_text, replies, logged, exc>>

-----------------------------------------------------------------------------
(* Bounds of the model *)

\* longest run of extra characters appended to a timecode
MaxExtra == 1
\* most subtitle blocks in an SRT document
MaxBlocks == 3
\* most lines in the [V4+ Styles] section of an input ASS document
MaxStyleLines == 2
\* most Dialogue lines in the [Events] section of an input ASS document
MaxEvents == 2

-----------------------------------------------------------------------------
(* Python string primitives, on atom sequences *)

Empty == <<>>

\* characters matched by \d
Digit == {"0", "1", "2", "3", "4", "5", "6", "7", "8", "9"}

IsDigit(c) == c \in Digit

\* characters matched by \s and removed by str.strip()
IsSpace(c) == c \in {" ", "\t", "\n", "\r"}

\* text[i:] in Python (i is the 0-based offset): the atoms after the first i
Drop(s, i) == SubSeq(s, i + 1, Len(s))

\* text[:i] in Python
Take(s, i) == SubSeq(s, 1, i)

\* s.startswith(p) at 0-based offset i
MatchAt(s, p, i) == /\ i + Len(p) <= Len(s)
                    /\ SubSeq(s, i + 1, i + Len(p)) = p

\* the 0-based offsets at which p occurs in s, at or after offset from
Occurrences(s, p, from) == {i \in from..(Len(s) - Len(p)) : MatchAt(s, p, i)}

\* p in s
Contains(s, p) == Occurrences(s, p, 0) # {}

Min(S) == CHOOSE x \in S : \A y \in S : x <= y

RECURSIVE LStrip(_)
LStrip(s) == IF s # Empty /\ IsSpace(Head(s)) THEN LStrip(Tail(s)) ELSE s

RECURSIVE RStrip(_)
RStrip(s) == IF s # Empty /\ IsSpace(s[Len(s)]) THEN RStrip(Take(s, Len(s) - 1)) ELSE s

\* str.strip()
Strip(s) == RStrip(LStrip(s))

\* sep.join(parts)
RECURSIVE Join(_, _)
Join(parts, sep) ==
    IF parts = Empty THEN Empty
    ELSE IF Len(parts) = 1 THEN parts[1]
    ELSE parts[1] \o sep \o Join(Tail(parts), sep)

\* s.split(sep): the pieces between the non-overlapping occurrences of sep,
\* found left to right
RECURSIVE Split(_, _)
Split(s, sep) ==
    LET occ == Occurrences(s, sep, 0)
    IN IF occ = {} THEN <<s>>
       ELSE LET i == Min(occ)
            IN <<Take(s, i)>> \o Split(Drop(s, i + Len(sep)), sep)

\* s.splitlines(): lines end at "\n", "\r\n" or "\r"; the line ends are not
\* kept and a final line end opens no further line
RECURSIVE SplitLines(_)
SplitLines(s) ==
    IF s = Empty THEN Empty
    ELSE LET ends == {i \in 0..(Len(s) - 1) : s[i + 1] \in {"\n", "\r"}}
         IN IF ends = {} THEN <<s>>
            ELSE LET i == Min(ends)
                     n == IF s[i + 1] = "\r" /\ MatchAt(s, <<"\n">>, i + 1) THEN 2 ELSE 1
                 IN <<Take(s, i)>> \o SplitLines(Drop(s, i + n))

\* re.split(r'\n\s*\n', s): a separator starts at a "\n" and, \s* being
\* greedy, runs to the last "\n" of the white space that follows it
RECURSIVE SplitBlocks(_)
SplitBlocks(s) ==
    LET starts == {i \in 0..(Len(s) - 2) :
                      /\ s[i + 1] = "\n"
                      /\ \E j \in (i + 1)..(Len(s) - 1) :
                            /\ s[j + 1] = "\n"
                            /\ \A k \in (i + 1)..j : IsSpace(s[k + 1])}
    IN IF starts = {} THEN <<s>>
       ELSE LET i == Min(starts)
                j == CHOOSE j \in (i + 1)..(Len(s) - 1) :
                        /\ s[j + 1] = "\n"
                        /\ \A k \in (i + 1)..j : IsSpace(s[k + 1])
                        /\ \A m \in (j + 1)..(Len(s) - 1) :
                              ~(s[m + 1] = "\n" /\ \A k \in (i + 1)..m : IsSpace(s[k + 1]))
            IN <<Take(s, i)>> \o SplitBlocks(Drop(s, j + 1))

-----------------------------------------------------------------------------
(* srt_time_to_ass *)

DigitVal(c) ==
    CASE c = "0" -> 0 [] c = "1" -> 1 [] c = "2" -> 2 [] c = "3" -> 3 [] c = "4" -> 4
      [] c = "5" -> 5 [] c = "6" -> 6 [] c = "7" -> 7 [] c = "8" -> 8 [] c = "9" -> 9

DigitChar(n) ==
    CASE n = 0 -> "0" [] n = 1 -> "1" [] n = 2 -> "2" [] n = 3 -> "3" [] n = 4 -> "4"
      [] n = 5 -> "5" [] n = 6 -> "6" [] n = 7 -> "7" [] n = 8 -> "8" [] n = 9 -> "9"

\* int(digits)
RECURSIVE ToInt(_)
ToInt(ds) == IF ds = Empty THEN 0
             ELSE 10 * ToInt(Take(ds, Len(ds) - 1)) + DigitVal(ds[Len(ds)])

\* f"{n}"
RECURSIVE Decimal(_)
Decimal(n) == IF n < 10 THEN <<DigitChar(n)>>
              ELSE Decimal(n \div 10) \o <<DigitChar(n % 10)>>

\* f"{n:02d}"
Pad2(n) == IF n < 10 THEN <<"0">> \o Decimal(n) ELSE Decimal(n)

\* re.match(r'(\d{2}):(\d{2}):(\d{2}),(\d{3})', s): anchored at the start of
\* s only
TimeMatch(s) ==
    /\ Len(s) >= 12
    /\ \A i \in {1, 2, 4, 5, 7, 8, 10, 11, 12} : IsDigit(s[i])
    /\ s[3] = ":" /\ s[6] = ":" /\ s[9] = ","

\* a faulty variant of Centiseconds that rounds to the nearest centisecond
CentisecondsRounded(millis) == (millis + 5) \div 10

\* int(millis) // 10
Centiseconds(millis) == millis \div 10

srt_time_to_ass(s) ==
    IF ~TimeMatch(s) THEN s
    ELSE LET hours == ToInt(SubSeq(s, 1, 2))
             minutes == ToInt(SubSeq(s, 4, 5))
             seconds == ToInt(SubSeq(s, 7, 8))
             centiseconds == Centiseconds(ToInt(SubSeq(s, 10, 12)))
         IN Decimal(hours) \o <<":">> \o Pad2(minutes) \o <<":">> \o Pad2(seconds)
               \o <<".">> \o Pad2(centiseconds)


-----------------------------------------------------------------------------
(* convert_srt_to_ass *)

\* the literal " --> "
Arrow == <<" ", "-->", " ">>

\* the fixed header of convert_srt_to_ass
header ==
    <<"[", "Script Info", "]", "\n",
      "Title: Converted Subtitles", "\n",
      "ScriptType: v4.00+", "\n",
      "Collisions: Normal", "\n",
      "PlayResX: 1280", "\n",
      "PlayResY: 720", "\n",
      "Timer: 100.0000", "\n",
      "\n",
      "[", "V4+ Styles", "]", "\n",
      "Format: Name, Fontname, Fontsize, PrimaryColour, SecondaryColour, OutlineColour, BackColour, Bold, Italic, Underline, StrikeOut, ScaleX, ScaleY, Spacing, Angle, BorderStyle, Outline, Shadow, Alignment, MarginL, MarginR, MarginV, Encoding", "\n",
      "Style: Default,HelveticaRounded LT Std BdCn,78,&H00FFFFFF,&H000000FF,&H00000000,&H96000000,0,0,0,0,100,100,0,0,1,3,4.5,2,60,60,65,1", "\n",
      "\n",
      "[", "Events", "]", "\n",
      "Format: Layer, Start, End, Style, Name, MarginL, MarginR, MarginV, Effect, Text", "\n">>

\* a faulty variant of CueText that joins the text lines with a space
CueTextSpaceJoined(lines) == Join(Drop(lines, 2), <<" ">>)

\* "\\N".join(lines[2:])
CueText(lines) == Join(Drop(lines, 2), <<"\\N">>)

\* f"Dialogue: 0,{start_ass},{end_ass},Default,,0,0,0,," + text
DialogueLine(start_ass, end_ass, text) ==
    <<"Dialogue: 0,">> \o start_ass \o <<",">> \o end_ass \o <<",Default,,0,0,0,,">> \o text

\* one pass of the loop body over a block: the Dialogue lines it appends (none
\* or one), or the ValueError of unpacking a split of other than two parts
BlockDialogue(block) ==
    LET lines == SplitLines(Strip(block))
    IN IF Len(lines) >= 3
       THEN LET time_line == Strip(lines[2])
            IN IF ~Contains(time_line, Arrow)
               THEN [raised |-> FALSE, lines |-> <<>>]
               ELSE LET parts == Split(time_line, Arrow)
                    IN IF Len(parts) # 2
                       THEN [raised |-> TRUE, lines |-> <<>>]
                       ELSE LET start_ass == srt_time_to_ass(Strip(parts[1]))
                                end_ass == srt_time_to_ass(Strip(parts[2]))
                            IN [raised |-> FALSE,
                                lines |-> <<DialogueLine(start_ass, end_ass, CueText(lines))>>]
       ELSE [raised |-> FALSE, lines |-> <<>>]

\* the for loop: dialogue_lines after the last block, or the exception that
\* ends the loop at the first block that raises
RECURSIVE DialogueLines(_)
DialogueLines(blocks) ==
    IF blocks = Empty THEN [raised |-> FALSE, lines |-> <<>>]
    ELSE LET d == BlockDialogue(Head(blocks))
         IN IF d.raised THEN d
            ELSE LET rest == DialogueLines(Tail(blocks))
                 IN IF rest.raised THEN rest
                    ELSE [raised |-> FALSE, lines |-> d.lines \o rest.lines]

\* the call's outcome: the returned text, or raised (the ValueError leaves
\* the function)
convert_srt_to_ass(text) ==
    LET blocks == SplitBlocks(Strip(text))
        dl == DialogueLines(blocks)
    IN IF dl.raised THEN [raised |-> TRUE, text |-> Empty]
       ELSE [raised |-> FALSE, text |-> header \o Join(dl.lines, <<"\n">>)]

-----------------------------------------------------------------------------
(* update_ass_styles *)

StylesToken == <<"[", "V4+ Styles", "]">>

ScriptInfoToken == <<"[", "Script Info", "]">>

\* our_style_header of update_ass_styles
our_style_header ==
    StylesToken \o <<"\n",
      "Format: Name, Fontname, Fontsize, PrimaryColour, SecondaryColour, OutlineColour, BackColour, Bold, Italic, Underline, StrikeOut, ScaleX, ScaleY, Spacing, Angle, BorderStyle, Outline, Shadow, Alignment, MarginL, MarginR, MarginV, Encoding", "\n",
      "Style: Default,HelveticaRounded LT Std BdCn,78,&H00FFFFFF,&H000000FF,&H00000000,&H96000000,0,0,0,0,100,100,0,0,1,3,4.5,2,60,60,65,1", "\n">>

\* "$" without re.MULTILINE at 0-based offset p: the end of the text, or just
\* before a line end that is the text's last character
AtDollar(text, p) ==
    \/ p = Len(text)
    \/ p = Len(text) - 1 /\ text[Len(text)] = "\n"

\* a faulty variant of SectionEnd whose section runs to the end of the text
SectionEndGreedy(text, from) == Len(text)

\* where the lazy ".*?" of group 1 stops, searching from offset from: the
\* first offset at which "\n[" or "$" matches
SectionEnd(text, from) ==
    Min({p \in from..Len(text) : MatchAt(text, <<"\n", "[">>, p) \/ AtDollar(text, p)})

\* re.search(r"(?s)(TOKEN.*?)(\n\[|$)", text): the match starts at the first
\* occurrence of the token, wherever in the text that is
SectionSearch(text, token) ==
    LET occ == Occurrences(text, token, 0)
    IN IF occ = {} THEN [found |-> FALSE, start |-> 0, end1 |-> 0, group2 |-> Empty]
       ELSE LET start == Min(occ)
                end1 == SectionEnd(text, start + Len(token))
            IN [found |-> TRUE, start |-> start, end1 |-> end1,
                group2 |-> IF MatchAt(text, <<"\n", "[">>, end1) THEN <<"\n", "[">> ELSE Empty]

\* a faulty variant of Replacement that leaves out what group 2 matched
ReplacementHeaderOnly(m) == our_style_header

\* lambda m: our_style_header + m.group(2)
Replacement(m) == our_style_header \o m.group2

\* a faulty variant of insert_pos that takes the end of the whole match
insert_pos_end_of_match(match_script) == match_script.end1 + Len(match_script.group2)

\* insert_pos = match_script.end(1)
insert_pos(match_script) == match_script.end1

update_ass_styles(text) ==
    LET m == SectionSearch(text, StylesToken)
    IN IF m.found
       THEN \* re.sub(pattern, ..., text, count=1)
            Take(text, m.start) \o Replacement(m) \o Drop(text, m.end1 + Len(m.group2))
       ELSE LET match_script == SectionSearch(text, ScriptInfoToken)
            IN IF match_script.found
               THEN Take(text, insert_pos(match_script)) \o <<"\n">> \o our_style_header
                       \o Drop(text, insert_pos(match_script))
               ELSE our_style_header \o <<"\n">> \o text

-----------------------------------------------------------------------------
(* Inputs of srt_time_to_ass *)

\* "HH:MM:SS,mmm" from its four digit fields
Timecode(hh, mm, ss, ms) == hh \o <<":">> \o mm \o <<":">> \o ss \o <<",">> \o ms

HourFields == {<<"0", "0">>, <<"0", "1">>, <<"1", "0">>, <<"9", "9">>}

MinSecFields == {<<"0", "0">>, <<"0", "5">>, <<"5", "9">>}

MilliFields == {<<a, b, c>> : a \in {"0", "4", "9"}, b \in Digit, c \in Digit}

ValidTimes ==
    {Timecode(hh, mm, ss, ms) : hh \in HourFields, mm \in MinSecFields,
                                ss \in MinSecFields, ms \in MilliFields}

\* the timecodes that the malformed inputs are made from
BaseTimes ==
    {Timecode(<<"0", "0">>, <<"0", "0">>, <<"0", "5">>, <<"0", "0", "0">>),
     Timecode(<<"0", "0">>, <<"0", "1">>, <<"0", "2">>, <<"9", "9", "9">>),
     Timecode(<<"1", "2">>, <<"3", "4">>, <<"5", "6">>, <<"7", "8", "9">>)}

\* the sequences over S of length lo..hi
SeqsOf(S, lo, hi) == UNION {[1..k -> S] : k \in lo..hi}

ExtraChars == {"x", "7", " "}

\* a timecode followed by extra characters
TimesWithExtra == {t \o e : t \in BaseTimes, e \in SeqsOf(ExtraChars, 1, MaxExtra)}

\* a timecode with one character replaced, cut short, or preceded by a
\* character
BrokenTimes ==
    {[t EXCEPT ![k] = c] : t \in BaseTimes, k \in 1..12, c \in {"x", ".", ":", ",", "0"}}
    \cup {Take(t, k) : t \in BaseTimes, k \in 0..11}
    \cup {<<c>> \o t : t \in BaseTimes, c \in ExtraChars}
    \cup {<<"b", "a", "d", "-", "t", "i", "m", "e">>}

TimeInputs == ValidTimes \cup TimesWithExtra \cup BrokenTimes

-----------------------------------------------------------------------------
(* Inputs of convert_srt_to_ass: documents made of blocks of lines *)

T1 == Timecode(<<"0", "0">>, <<"0", "0">>, <<"0", "1">>, <<"0", "0", "0">>)
T2 == Timecode(<<"0", "0">>, <<"0", "0">>, <<"0", "3">>, <<"5", "0", "0">>)
T3 == Timecode(<<"0", "1">>, <<"0", "2">>, <<"0", "3">>, <<"9", "9", "9">>)
T4 == Timecode(<<"1", "0">>, <<"5", "9">>, <<"5", "9">>, <<"0", "0", "9">>)

\* A time line: left, " --> ", right, then " --> " and each further part;
\* lpad and rpad are white space around the line.
TimeLineText(tl) ==
    tl.lpad \o Join(<<tl.left, tl.right>> \o tl.more, Arrow) \o tl.rpad

NoTimeLine == [present |-> FALSE, lpad |-> Empty, left |-> Empty, right |-> Empty,
               more |-> Empty, rpad |-> Empty]

TimeLine(lpad, left, right, more, rpad) ==
    [present |-> TRUE, lpad |-> lpad, left |-> left, right |-> right,
     more |-> more, rpad |-> rpad]

\* The lines of a block: an index line if it has one, its time line if it has
\* one, its text lines.
BlockLines(b) ==
    (IF b.index THEN <<(<<"1">>)>> ELSE Empty)
       \o (IF b.time.present THEN <<TimeLineText(b.time)>> ELSE Empty)
       \o b.text

Block(index, time, text) == [index |-> index, time |-> time, text |-> text]

\* a cue of one text line
OneLineCue == Block(TRUE, TimeLine(Empty, T1, T2, Empty, Empty), <<(<<"Hello">>)>>)

\* a cue of two text lines, the times padded with white space
TwoLineCue ==
    Block(TRUE, TimeLine(<<" ">>, T3 \o <<" ">>, <<" ">> \o T4, Empty, <<" ">>),
          <<(<<"Hello">>), <<" ", "world">>>>)

\* a cue whose start is no timecode and whose end has an extra character
FallbackCue ==
    Block(TRUE, TimeLine(Empty, <<"soon">>, T2 \o <<"x">>, Empty, Empty), <<(<<"Hello">>)>>)

\* two lines only
NoTextBlock == Block(TRUE, TimeLine(Empty, T1, T2, Empty, Empty), Empty)

\* a time line with two separators
TwoSeparatorsBlock == Block(TRUE, TimeLine(Empty, T1, T2, <<T3>>, Empty), <<(<<"Hello">>)>>)

\* a time line with nothing before the separator
NoStartBlock == Block(TRUE, TimeLine(Empty, Empty, T2, Empty, Empty), <<(<<"Hello">>)>>)

\* three lines, none with a separator
NoSeparatorBlock == Block(TRUE, NoTimeLine, <<(<<"Hello">>), <<"world">>>>)

\* no index line: the time line is the first line
NoIndexBlock ==
    Block(FALSE, TimeLine(Empty, T1, T2, Empty, Empty), <<(<<"Hello">>), <<"world">>>>)

BlockKinds ==
    {OneLineCue, TwoLineCue, FallbackCue, NoTextBlock, TwoSeparatorsBlock, NoStartBlock,
     NoSeparatorBlock, NoIndexBlock}

\* How a document is laid out: the line end, the blank lines between blocks,
\* the white space before the first and after the last block.
PlainLayout == [eol |-> <<"\n">>, gap |-> <<"\n", "\n">>, lead |-> Empty, trail |-> Empty]

SpacedLayout ==
    [eol |-> <<"\n">>, gap |-> <<"\n", " ", "\n", "\n">>, lead |-> <<"\n">>,
     trail |-> <<"\n">>]

CrlfLayout ==
    [eol |-> <<"\r", "\n">>, gap |-> <<"\r", "\n", "\r", "\n">>, lead |-> Empty,
     trail |-> <<"\r", "\n">>]

Layouts == {PlainLayout, SpacedLayout, CrlfLayout}

SrtDocs == {[layout |-> l, blocks |-> bs] : l \in Layouts, bs \in SeqsOf(BlockKinds, 1, MaxBlocks)}

\* the text of a document
SrtText(d) ==
    d.layout.lead
       \o Join([i \in 1..Len(d.blocks) |-> Join(BlockLines(d.blocks[i]), d.layout.eol)],
               d.layout.gap)
       \o d.layout.trail

-----------------------------------------------------------------------------
(* Inputs of update_ass_styles: documents made of sections of lines *)

Absent == [present |-> FALSE, lines |-> Empty]

Section(lines) == [present |-> TRUE, lines |-> lines]

TitleLine == <<"Title: x">>

\* a comment that names the styles section
StrayComment == <<"; styles are in ", "[", "V4+ Styles", "]">>

PlainDialogue == <<"Dialogue: 0,0:00:01.00,0:00:03.50,Default,,0,0,0,,Hello">>

\* a dialogue whose text holds the token
StrayDialogue ==
    <<"Dialogue: 0,0:00:04.25,0:00:05.00,Default,,0,0,0,,see ", "[", "V4+ Styles", "]", " here">>

InfoChoices == {Absent, Section(<<TitleLine>>), Section(<<TitleLine, StrayComment>>)}

StylesChoices ==
    {Absent} \cup {Section(ls) : ls \in SeqsOf({<<"Format: Name, Fontname">>,
                                                <<"Style: Old,Arial">>}, 0, MaxStyleLines)}

EventsChoices ==
    {Absent} \cup {Section(ls) : ls \in SeqsOf({PlainDialogue, StrayDialogue}, 0, MaxEvents)}

\* pre: lines before the first section; blank: a blank line between
\* sections; final_nl: the text ends with a line end
AssDocs ==
    {[pre |-> p, info |-> i, styles |-> s, events |-> e, blank |-> b, final_nl |-> n] :
        p \in {Empty, <<(<<"; made by hand">>)>>},
        i \in InfoChoices, s \in StylesChoices, e \in EventsChoices,
        b \in BOOLEAN, n \in BOOLEAN}

\* the lines of a section: its header line and its lines
SectionLines(name, sec) ==
    IF sec.present THEN <<(<<"[", name, "]">>)>> \o sec.lines ELSE Empty

\* the lines of the sections from the k-th on (1: [Script Info], 2: [V4+
\* Styles], 3: [Events]), a blank line after a section that another follows
LinesFrom(d, k) ==
    LET secs == <<SectionLines("Script Info", d.info), SectionLines("V4+ Styles", d.styles),
                  SectionLines("Events", d.events)>>
        later(j) == \E m \in (j + 1)..3 : secs[m] # Empty
        part(j) == IF j < k \/ secs[j] = Empty THEN Empty
                   ELSE secs[j] \o (IF d.blank /\ later(j) THEN <<Empty>> ELSE Empty)
    IN part(1) \o part(2) \o part(3)

\* the text of lines, each ended by a line end except the last, which has one
\* only if final_nl
LinesText(lines, final_nl) ==
    Join(lines, <<"\n">>) \o (IF final_nl /\ lines # Empty THEN <<"\n">> ELSE Empty)

\* the text of a document
AssText(d) == LinesText(d.pre \o LinesFrom(d, 1), d.final_nl)

\* the text of the document from the header line of its [Events] section on
EventsText(d) == LinesText(LinesFrom(d, 3), d.final_nl)

-----------------------------------------------------------------------------
(* The calls of the three functions *)

TimeIdle == time_str = Empty /\ time_ret = Empty /\ time_pc = "idle"

SrtIdle == srt_doc = Empty /\ srt_text = Empty /\ srt_ret = Empty /\ srt_pc = "idle"

AssIdle == /\ ass_doc = Empty /\ ass_text = Empty /\ new_text = Empty
           /\ new_text2 = Empty /\ ass_pc = "idle"

HandlerIdle == /\ document = Empty /\ pc = "idle" /\ file_text = Empty
               /\ processed_text = Empty /\ replies = Empty /\ logged = Empty
               /\ exc = "none"

InitTime ==
    /\ time_str \in TimeInputs
    /\ time_ret = Empty
    /\ time_pc = "call"
    /\ SrtIdle /\ AssIdle /\ HandlerIdle

\* srt_time_to_ass(time_str) returns
TimeCall ==
    /\ time_pc = "call"
    /\ time_ret' = srt_time_to_ass(time_str)
    /\ time_pc' = "done"
    /\ UNCHANGED <<time_str, srtVars, assVars, handlerVars>>

NextTime == TimeCall

SpecTime == InitTime /\ [][NextTime]_vars

InitConvert ==
    /\ srt_doc \in SrtDocs
    /\ srt_text = SrtText(srt_doc)
    /\ srt_ret = Empty
    /\ srt_pc = "call"
    /\ TimeIdle /\ AssIdle /\ HandlerIdle

\* convert_srt_to_ass(srt_text) returns or raises
ConvertCall ==
    /\ srt_pc = "call"
    /\ srt_ret' = convert_srt_to_ass(srt_text)
    /\ srt_pc' = "done"
    /\ UNCHANGED <<srt_doc, srt_text, timeVars, assVars, handlerVars>>

NextConvert == ConvertCall

SpecConvert == InitConvert /\ [][NextConvert]_vars

InitStyles ==
    /\ ass_doc \in AssDocs
    /\ ass_text = AssText(ass_doc)
    /\ new_text = Empty
    /\ new_text2 = Empty
    /\ ass_pc = "call"
    /\ TimeIdle /\ SrtIdle /\ HandlerIdle

\* update_ass_styles(ass_text) returns
Update ==
    /\ ass_pc = "call"
    /\ new_text' = update_ass_styles(ass_text)
    /\ ass_pc' = "updated"
    /\ UNCHANGED <<ass_doc, ass_text, new_text2, timeVars, srtVars, handlerVars>>

\* update_ass_styles is called on its own result
UpdateAgain ==
    /\ ass_pc = "updated"
    /\ new_text2' = update_ass_styles(new_text)
    /\ ass_pc' = "updated again"
    /\ UNCHANGED <<ass_doc, ass_text, new_text, timeVars, srtVars, handlerVars>>

NextStyles == Update \/ UpdateAgain

SpecStyles == InitStyles /\ [][NextStyles]_vars

-----------------------------------------------------------------------------
(* Claims about srt_time_to_ass, checked under SpecTime *)

\* s is "HH:MM:SS,mmm": twelve characters, digits around ":", ":" and ","
IsTimecode(s) ==
    /\ Len(s) = 12
    /\ s[3] = ":" /\ s[6] = ":" /\ s[9] = ","
    /\ \A i \in (1..12) \ {3, 6, 9} : s[i] \in Digit

\* The ASS time of a timecode t, character by character: the hours without a
\* leading zero, the minutes and seconds as they are, the first two digits of
\* the milliseconds.
AssTimeOf(t) ==
    (IF t[1] = "0" THEN <<t[2]>> ELSE <<t[1], t[2]>>)
       \o <<":", t[4], t[5], ":", t[7], t[8], ".", t[10], t[11]>>

\* s matches H+:DD:DD.DD
IsAssTime(s) ==
    /\ Len(s) >= 10
    /\ \A i \in 1..(Len(s) - 9) : s[i] \in Digit
    /\ LET r == SubSeq(s, Len(s) - 8, Len(s))
       IN /\ r[1] = ":" /\ r[4] = ":" /\ r[7] = "."
          /\ \A i \in {2, 3, 5, 6, 8, 9} : r[i] \in Digit

\* C5: for every valid timecode "HH:MM:SS,mmm", srt_time_to_ass returns
\* "{hours}:{MM}:{SS}.{cc}": the hours without leading zeros, the minutes and
\* seconds as in the input, cc = floor(m / 10) in 0..99 on two digits; the
\* result matches H+:DD:DD.DD.
C5_TruncationLaw ==
    (time_pc = "done" /\ IsTimecode(time_str)) =>
        /\ time_ret = AssTimeOf(time_str)
        /\ LET cc == ToInt(SubSeq(time_ret, Len(time_ret) - 1, Len(time_ret)))
           IN cc = ToInt(SubSeq(time_str, 10, 12)) \div 10 /\ cc \in 0..99
        /\ ToInt(SubSeq(time_ret, 1, Len(time_ret) - 9)) = ToInt(SubSeq(time_str, 1, 2))
        /\ IsAssTime(time_ret)

\* "00:05:59,999" has been translated to "0:05:59.99"
C5_Witness ==
    /\ time_pc = "done"
    /\ time_str = Timecode(<<"0", "0">>, <<"0", "5">>, <<"5", "9">>, <<"9", "9", "9">>)
    /\ time_ret = <<"0", ":", "0", "5", ":", "5", "9", ".", "9", "9">>

\* C8: every input that does not match "HH:MM:SS,mmm" (two-digit hours,
\* minutes and seconds, a comma, three-digit milliseconds), e.g. "bad-time" or
\* a timecode followed by extra characters, is returned unchanged.
C8_FallbackLaw ==
    (time_pc = "done" /\ ~IsTimecode(time_str)) => time_ret = time_str

-----------------------------------------------------------------------------
(* Claims about convert_srt_to_ass, checked under SpecConvert *)

IsSuffix(p, s) == Len(p) <= Len(s) /\ SubSeq(s, Len(s) - Len(p) + 1, Len(s)) = p

\* the lines of the returned document that begin with "Dialogue:"
DialogueOut ==
    LET IsDialogue(l) == l # Empty /\ l[1] = "Dialogue: 0,"
    IN SelectSeq(SplitLines(srt_ret.text), IsDialogue)

\* C1's well-formed block: at least 3 lines, the second containing " --> "
WellFormed(b) == Len(BlockLines(b)) >= 3 /\ Contains(BlockLines(b)[2], Arrow)

\* A block that holds a cue: an index line, a time line with exactly one
\* separator and something on each side of it, at least one text line.
HoldsCue(b) ==
    /\ b.index /\ b.time.present /\ b.text # Empty
    /\ b.time.more = Empty
    /\ Strip(b.time.left) # Empty /\ Strip(b.time.right) # Empty

\* the Dialogue line of a block that holds a cue, from the parts of the block
DialogueOf(b) ==
    <<"Dialogue: 0,">> \o srt_time_to_ass(Strip(b.time.left)) \o <<",">>
       \o srt_time_to_ass(Strip(b.time.right)) \o <<",Default,,0,0,0,,">>
       \o Join(b.text, <<"\\N">>)

\* C1: the output holds exactly N lines beginning with "Dialogue:", N the
\* number of well-formed blocks (at least 3 lines, the second containing
\* " --> "), and the k-th of them carries the text of the k-th well-formed
\* block.
C1_CueCount ==
    srt_pc = "done" =>
        LET wf == SelectSeq(srt_doc.blocks, WellFormed)
        IN /\ ~srt_ret.raised
           /\ Len(DialogueOut) = Len(wf)
           /\ \A k \in 1..Len(wf) : IsSuffix(Join(wf[k].text, <<"\\N">>), DialogueOut[k])

\* C4: the call never raises; a malformed block (fewer than 3 lines, or a
\* second line without exactly one start and one end around " --> ") gives no
\* Dialogue line and the other blocks are converted.
C4_NeverRaises ==
    srt_pc = "done" =>
        /\ ~srt_ret.raised
        /\ LET cues == SelectSeq(srt_doc.blocks, HoldsCue)
           IN DialogueOut = [k \in 1..Len(cues) |-> DialogueOf(cues[k])]

\* C6: when the call returns, the document is the fixed header followed by
\* one line "Dialogue: 0,{start},{end},Default,,0,0,0,,{text}" per block that
\* holds a cue, in order, separated by single line ends: start and end the
\* translations of the trimmed strings left and right of " --> ", text the
\* text lines joined by backslash-N.
C6_DialogueForm ==
    (srt_pc = "done" /\ ~srt_ret.raised) =>
        LET cues == SelectSeq(srt_doc.blocks, HoldsCue)
        IN srt_ret.text =
              header \o Join([k \in 1..Len(cues) |-> DialogueOf(cues[k])], <<"\n">>)

\* a document with a cue of two text lines has been converted
C6_Witness ==
    /\ srt_pc = "done" /\ ~srt_ret.raised
    /\ \E k \in 1..Len(srt_doc.blocks) :
          HoldsCue(srt_doc.blocks[k]) /\ Len(srt_doc.blocks[k].text) = 2
    /\ Contains(srt_ret.text, <<"Hello", "\\N", " ", "world">>)
    /\ Len(DialogueOut) >= 2

-----------------------------------------------------------------------------
(* Claims about update_ass_styles, checked under SpecStyles *)

Updated == ass_pc \in {"updated", "updated again"}

\* the text of the document before the header line of its k-th section
TextBefore(d, k) ==
    Take(AssText(d), Len(AssText(d)) - Len(LinesText(LinesFrom(d, k), d.final_nl)))

\* The document has the three sections, and the token "[V4+ Styles]" is in no
\* line before the header line of its styles section.
ThreeSections(d) ==
    /\ d.info.present /\ d.styles.present /\ d.events.present
    /\ ~Contains(TextBefore(d, 2), StylesToken)

C3_EventsUntouched ==
    (Updated /\ ass_doc.events.present) => IsSuffix(EventsText(ass_doc), new_text)

\* what follows the [Script Info] section of a document without styles
\* section: the line end and the next section, or the final line end, or
\* nothing
AfterInfo(d) ==
    IF d.events.present THEN <<"\n">> \o EventsText(d)
    ELSE IF d.final_nl THEN <<"\n">> ELSE Empty

C10_Idempotent_AsStated ==
    ass_pc = "updated again" => new_text2 = new_text

\* a line that begins with "[" follows the first occurrence of the token, or
\* the text ends with a line end
SectionClosed(text, token) ==
    \/ Occurrences(text, <<"\n", "[">>, Min(Occurrences(text, token, 0)) + Len(token)) # {}
    \/ text[Len(text)] = "\n"

\* the documents on which the block that the first application writes is
\* followed by a section header line or by the final line end
Settles(text) ==
    IF Contains(text, StylesToken) THEN SectionClosed(text, StylesToken)
    ELSE IF Contains(text, ScriptInfoToken) THEN SectionClosed(text, ScriptInfoToken)
    ELSE text = Empty \/ Head(text) = "["

\* C10, amended: a second application changes nothing when a line beginning
\* with "[" follows the styles section (or, without one, the [Script Info]
\* section) or the document ends with a line end, and, when the document has
\* neither section, when it is empty or begins with "[".
C10_Idempotent ==
    (ass_pc = "updated again" /\ Settles(ass_text)) => new_text2 = new_text

\* update_ass_styles has been applied twice in each of its three branches (a
\* state per branch is reachable; this one is the branch that replaces)
C10_Witness ==
    /\ ass_pc = "updated again" /\ Settles(ass_text)
    /\ Contains(ass_text, StylesToken)
    /\ ass_text[Len(ass_text)] = "\n"
    /\ new_text # ass_text
    /\ new_text2 = new_text

-----------------------------------------------------------------------------
(* handle_document *)

\* str.lower(), on the letters of the file names
LowerChar(c) ==
    CASE c = "A" -> "a" [] c = "R" -> "r" [] c = "S" -> "s" [] c = "T" -> "t"
      [] OTHER -> c

Lower(s) == [i \in 1..Len(s) |-> LowerChar(s[i])]

\* s.endswith(p)
EndsWith(s, p) == Len(p) <= Len(s) /\ SubSeq(s, Len(s) - Len(p) + 1, Len(s)) = p

DotSrt == <<".", "s", "r", "t">>

DotAss == <<".", "a", "s", "s">>

\* name.rsplit(".", 1)[0]
RSplitDot(name) ==
    LET dots == {i \in 1..Len(name) : name[i] = "."}
    IN IF dots = {} THEN name
       ELSE Take(name, (CHOOSE i \in dots : \A j \in dots : j <= i) - 1)

\* a text message of reply_text
Notice(text) == [kind |-> "text", filename |-> Empty, body |-> <<text>>]

PleaseSend == Notice("Please send a file with a .srt or .ass extension.")

ProcessingNotice == Notice("Processing your file...")

FailureNotice == Notice("Sorry, there was an error processing your file.")

\* a faulty variant of Caught whose except clause names the transport's errors only
CaughtTransportOnly(e) == e = "NetworkError"

\* "except Exception": ValueError and telegram.error.NetworkError are both
\* subclasses of Exception
Caught(e) == e \in {"ValueError", "NetworkError"}

\* an exception e raised inside the try block
Raise(e) ==
    /\ exc' = e
    /\ pc' = IF Caught(e) THEN "except" ELSE "propagated"

NoDocument == [present |-> FALSE, file_name |-> Empty, text |-> Empty]

FileNames ==
    {<<"a", ".", "s", "r", "t">>, <<"b", ".", "A", "S", "S">>, <<"c", ".", "t", "x", "t">>,
     <<"d", ".", "e", ".", "S", "r", "t">>, <<"a", "s", "s">>}

\* what the uploaded file decodes to
FileTexts ==
    {SrtText([layout |-> PlainLayout, blocks |-> <<OneLineCue>>]),
     SrtText([layout |-> CrlfLayout, blocks |-> <<TwoLineCue, NoTextBlock>>]),
     SrtText([layout |-> PlainLayout, blocks |-> <<OneLineCue, TwoSeparatorsBlock>>]),
     AssText([pre |-> Empty, info |-> Section(<<TitleLine>>),
              styles |-> Section(<<(<<"Style: Old,Arial">>)>>),
              events |-> Section(<<PlainDialogue>>), blank |-> TRUE, final_nl |-> TRUE]),
     AssText([pre |-> Empty, info |-> Section(<<TitleLine>>), styles |-> Absent,
              events |-> Absent, blank |-> FALSE, final_nl |-> FALSE]),
     Empty}

Documents ==
    {NoDocument} \cup {[present |-> TRUE, file_name |-> n, text |-> t] :
                          n \in FileNames, t \in FileTexts}

InitHandler ==
    /\ document \in Documents
    /\ pc = "start"
    /\ file_text = Empty
    /\ processed_text = Empty
    /\ replies = Empty
    /\ logged = Empty
    /\ exc = "none"
    /\ TimeIdle /\ SrtIdle /\ AssIdle

\* from the entry of the handler to its first return or, the extension being
\* .srt or .ass, to the return of reply_text("Processing your file...")
HandleStart ==
    /\ pc = "start"
    /\ IF ~document.present
       THEN pc' = "done" /\ UNCHANGED replies
       ELSE LET filename == Lower(document.file_name)
            IN IF ~(EndsWith(filename, DotSrt) \/ EndsWith(filename, DotAss))
               THEN replies' = Append(replies, PleaseSend) /\ pc' = "done"
               ELSE replies' = Append(replies, ProcessingNotice) /\ pc' = "get_file"
    /\ UNCHANGED <<document, file_text, processed_text, logged, exc>>
    /\ UNCHANGED <<timeVars, srtVars, assVars>>

\* await document.get_file(): returns, or the transport raises
GetFile ==
    /\ pc = "get_file"
    /\ \/ pc' = "download" /\ UNCHANGED exc
       \/ Raise("NetworkError")
    /\ UNCHANGED <<document, file_text, processed_text, replies, logged>>
    /\ UNCHANGED <<timeVars, srtVars, assVars>>

\* await file.download_as_bytearray(): returns, or the transport raises; then
\* decode("utf-8", errors="replace"), which replaces what it cannot decode and
\* does not raise
Download ==
    /\ pc = "download"
    /\ \/ file_text' = document.text /\ pc' = "transform" /\ UNCHANGED exc
       \/ Raise("NetworkError") /\ UNCHANGED file_text
    /\ UNCHANGED <<document, processed_text, replies, logged>>
    /\ UNCHANGED <<timeVars, srtVars, assVars>>

\* the call of convert_srt_to_ass or update_ass_styles, by the extension
Transform ==
    /\ pc = "transform"
    /\ IF EndsWith(Lower(document.file_name), DotSrt)
       THEN LET r == convert_srt_to_ass(file_text)
            IN IF r.raised
               THEN Raise("ValueError") /\ UNCHANGED processed_text
               ELSE processed_text' = r.text /\ pc' = "reply_document" /\ UNCHANGED exc
       ELSE /\ processed_text' = update_ass_styles(file_text)
            /\ pc' = "reply_document"
            /\ UNCHANGED exc
    /\ UNCHANGED <<document, file_text, replies, logged>>
    /\ UNCHANGED <<timeVars, srtVars, assVars>>

\* await reply_document(InputFile(processed_io, filename=new_filename)):
\* returns, or the transport raises
ReplyDocument ==
    /\ pc = "reply_document"
    /\ \/ /\ replies' = Append(replies,
                               [kind |-> "document",
                                filename |-> RSplitDot(document.file_name) \o DotAss,
                                body |-> processed_text])
          /\ pc' = "done"
          /\ UNCHANGED exc
       \/ Raise("NetworkError") /\ UNCHANGED replies
    /\ UNCHANGED <<document, file_text, processed_text, logged>>
    /\ UNCHANGED <<timeVars, srtVars, assVars>>

\* the except clause: logger.exception, then reply_text of the failure notice.
\* The delivery of a text notice is the transport's part and is taken to
\* return, here as for the two notices of HandleStart.
ExceptClause ==
    /\ pc = "except"
    /\ logged' = Append(logged, exc)
    /\ replies' = Append(replies, FailureNotice)
    /\ pc' = "done"
    /\ UNCHANGED <<document, file_text, processed_text, exc>>
    /\ UNCHANGED <<timeVars, srtVars, assVars>>

NextHandler ==
    HandleStart \/ GetFile \/ Download \/ Transform \/ ReplyDocument \/ ExceptClause

SpecHandler == InitHandler /\ [][NextHandler]_vars

-----------------------------------------------------------------------------
(* Claims about handle_document, checked under SpecHandler *)

Sent(m) == \E i \in 1..Len(replies) : replies[i] = m

DocumentSent == \E i \in 1..Len(replies) : replies[i].kind = "document"

-----------------------------------------------------------------------------
(* The program: any of the entry points *)

Init == InitTime \/ InitConvert \/ InitStyles \/ InitHandler

Next == NextTime \/ NextConvert \/ NextStyles \/ NextHandler

Spec == Init /\ [][Next]_vars

=============================================================================
